---------------------------- MODULE Spec2Model ----------------------------
(***************************************************************************)
(* A model of vmms/distDocker.py: the bounded command runner (timeout,     *)
(* timeoutWithReturnStatus), the round-robin host pool (getHost) and the   *)
(* lifecycle operations of DistDocker.                                     *)
(*                                                                         *)
(* Each component has a specification of its own over the shared           *)
(* variables: SpecPool (getHost / initializeVM run by concurrent workers), *)
(* SpecTimeout (timeout), SpecRetry (timeoutWithReturnStatus) and SpecLife *)
(* (copyIn, copyOut, destroyVM, safeDestroyVM, getVMs, existsVM), SpecWait *)
(* (waitVM), SpecRun (runJob) and SpecNaming (instanceName and getVMs for  *)
(* several values of config.Config.PREFIX).  Time is counted in units of   *)
(* config.Config.TIMER_POLL_INTERVAL.                                      *)
(***************************************************************************)
EXTENDS Integers, Sequences, FiniteSets, TLC

\* ------------------------------------------------------------------ bounds
MaxHosts == 2
NumWorkers == 2
MaxVMs == 3
MaxDeadline == 3
MaxFiles == 2

\* config.Config.DESTROY_SECS, in poll intervals.
DESTROY_SECS == 2

\* Exit statuses a command ends with: success, failure, and ssh's
\* connection failure.
ExitStatuses == {0, 1, 255}

\* The names a host list is drawn from (distinct host addresses).
HostNames == <<"hostA", "hostB", "hostC", "hostD", "hostE">>

Workers == 1..NumWorkers
VMs == 1..MaxVMs
NoWorker == 0
Unset == "unset"

VARIABLES
  hosts,        \* self.hosts: the ordered host list
  hostIdx,      \* self.hostIdx: the cursor (0-based, as in the source)
  hostLock,     \* self.hostLock: the worker holding it, or NoWorker
  pc,           \* each worker's position in initializeVM / getHost
  host,         \* getHost's (and initializeVM's) local `host`, per worker
  vmOf,         \* the vm a worker's initializeVM call was given
  domain_name,  \* vm.domain_name of every machine
  served,       \* history: <<vm, host>> in the order getHost read the cursor
  \* timeout(command, time_out)
  tpc,          \* position in timeout
  time_out,     \* the deadline argument
  t,            \* the local t
  proc,         \* the launched process p: "none", "running", "exited", "killed"
  status,       \* the exit status the process ended with, once it has exited
  lastPoll,     \* what the most recent p.poll() returned
  killSent,     \* whether /bin/kill -9 was run on p.pid
  returncode,   \* the value returned
  \* timeoutWithReturnStatus(command, time_out, returnValue); it shares
  \* time_out, t, proc and status with timeout
  rpc,          \* position in timeoutWithReturnStatus
  returnValue,  \* the expected status
  ret,          \* the local ret, once bound
  retBound,     \* whether ret has been assigned
  result,       \* the value returned
  fault,        \* the exception the call ended with, or "none"
  \* the remote hosts
  volumes,      \* directories under the volume base path: [host, name]
  staged,       \* files in those directories: [host, name, file]
  containers,   \* docker containers: [host, name]
  \* lifecycle operations, one caller per machine
  op,           \* the DistDocker method a machine's caller is running
  lpc,          \* the caller's position in it
  inputFiles,   \* copyIn's inputFiles argument (the destFile names)
  fileIdx,      \* copyIn: index of the file the for loop is at
  calls,        \* the remote commands the running operation issued so far
  lret,         \* the value the operation returned
  lfault,       \* the exception the operation ended with, or "none"
  vms,          \* getVMs: the machines list built so far
  elapsed,      \* safeDestroyVM: time.time() - start_time
  errlog,       \* whether the operation called self.log.error
  lastR,        \* what the operation's most recent timeout() call returned
  \* configuration and arguments
  PREFIX,       \* config.Config.PREFIX, as tokens
  max_secs,     \* waitVM's max_secs argument
  instance_down,\* waitVM's local instance_down
  runTimeout    \* runJob's runTimeout argument

poolVars == <<hosts, hostIdx, hostLock, pc, host, vmOf, domain_name, served>>
runVars == <<tpc, time_out, t, proc, status, lastPoll, killSent, returncode>>

procVars == <<time_out, t, proc, status>>
retryVars == <<rpc, returnValue, ret, retBound, result, fault>>

remoteVars == <<volumes, staged, containers>>
lifeVars == <<op, lpc, inputFiles, fileIdx, calls, lret, lfault, vms, elapsed, errlog, lastR>>

argVars == <<PREFIX, max_secs, instance_down, runTimeout>>

vars == <<poolVars, runVars, retryVars, remoteVars, lifeVars, argVars>>

\* Python's None and an integer, as values of one kind.
None == [isNone |-> TRUE, val |-> 0]
Some(c) == [isNone |-> FALSE, val |-> c]

\* The state of a component that a specification leaves alone.
ParkedPool ==
  /\ hosts = <<"hostA">>
  /\ hostIdx = 0
  /\ hostLock = 0
  /\ pc = <<>>
  /\ host = <<>>
  /\ vmOf = <<>>
  /\ domain_name = <<>>
  /\ served = <<>>

ParkedRun ==
  /\ tpc = "idle"
  /\ time_out = 0
  /\ t = 0
  /\ proc = "none"
  /\ status = 0
  /\ lastPoll = None
  /\ killSent = FALSE
  /\ returncode = 0

ParkedRetry ==
  /\ rpc = "idle"
  /\ returnValue = 0
  /\ ret = None
  /\ retBound = FALSE
  /\ result = None
  /\ fault = "none"

ParkedLife ==
  /\ volumes = {}
  /\ staged = {}
  /\ containers = {}
  /\ op = <<>>
  /\ lpc = <<>>
  /\ inputFiles = <<>>
  /\ fileIdx = <<>>
  /\ calls = <<>>
  /\ lret = <<>>
  /\ lfault = <<>>
  /\ vms = <<>>
  /\ elapsed = <<>>
  /\ errlog = <<>>
  /\ lastR = <<>>

ParkedArgs ==
  /\ PREFIX = <<"tango">>
  /\ max_secs = <<>>
  /\ instance_down = <<>>
  /\ runTimeout = <<>>

\* ------------------------------------------------------------ the host pool

\* DistDocker.__init__: the cursor starts at 0 and the lock is free.  The
\* source's list has one host; the pool is modelled for every length
\* 1..MaxHosts.
PoolStart ==
  /\ \E n \in 1..MaxHosts : hosts = SubSeq(HostNames, 1, n)
  /\ hostIdx = 0
  /\ hostLock = NoWorker
  /\ pc = [w \in Workers |-> "idle"]
  /\ host = [w \in Workers |-> Unset]
  /\ vmOf = [w \in Workers |-> 0]
  /\ domain_name = [v \in VMs |-> Unset]
  /\ served = <<>>

\* A machine no initializeVM call has been given yet.
Fresh(v) == domain_name[v] = Unset /\ \A w \in Workers : vmOf[w] # v

\* initializeVM, line 126: a worker enters getHost for machine v.
InitializeVM(w, v) ==
  /\ pc[w] = "idle"
  /\ Fresh(v)
  /\ vmOf' = [vmOf EXCEPT ![w] = v]
  /\ pc' = [pc EXCEPT ![w] = "acquire"]
  /\ UNCHANGED <<hosts, hostIdx, hostLock, host, domain_name, served>>
  /\ UNCHANGED <<runVars, retryVars, remoteVars, lifeVars, argVars>>

\* A getHost that takes no lock (the mutant of Acquire).
AcquireNoLock(w) ==
  /\ pc[w] = "acquire"
  /\ pc' = [pc EXCEPT ![w] = "read"]
  /\ UNCHANGED <<hosts, hostIdx, hostLock, host, vmOf, domain_name, served>>
  /\ UNCHANGED <<runVars, retryVars, remoteVars, lifeVars, argVars>>

\* getHost, line 92: self.hostLock.acquire() blocks until the lock is free.
Acquire(w) ==
  /\ pc[w] = "acquire"
  /\ hostLock = NoWorker
  /\ hostLock' = w
  /\ pc' = [pc EXCEPT ![w] = "read"]
  /\ UNCHANGED <<hosts, hostIdx, host, vmOf, domain_name, served>>
  /\ UNCHANGED <<runVars, retryVars, remoteVars, lifeVars, argVars>>

\* A read of the host after the cursor (the mutant of HostAt).
HostAtOffByOne(i) == hosts[((i + 1) % Len(hosts)) + 1]

\* self.hosts[i] for a 0-based index i.
HostAt(i) == hosts[i + 1]

\* getHost, line 93: host = self.hosts[self.hostIdx].
ReadHost(w) ==
  /\ pc[w] = "read"
  /\ hostIdx < Len(hosts)
  /\ host' = [host EXCEPT ![w] = HostAt(hostIdx)]
  /\ served' = Append(served, <<vmOf[w], HostAt(hostIdx)>>)
  /\ pc' = [pc EXCEPT ![w] = "incr"]
  /\ UNCHANGED <<hosts, hostIdx, hostLock, vmOf, domain_name>>
  /\ UNCHANGED <<runVars, retryVars, remoteVars, lifeVars, argVars>>

\* getHost, line 94: self.hostIdx = self.hostIdx + 1.
Incr(w) ==
  /\ pc[w] = "incr"
  /\ hostIdx' = hostIdx + 1
  /\ pc' = [pc EXCEPT ![w] = "wrap"]
  /\ UNCHANGED <<hosts, hostLock, host, vmOf, domain_name, served>>
  /\ UNCHANGED <<runVars, retryVars, remoteVars, lifeVars, argVars>>

\* A wrap that tests > instead of >= (the mutant of WrapIdx).
WrapIdxLate(i) == IF i > Len(hosts) THEN 0 ELSE i

\* getHost, lines 95-96: the cursor wraps to 0 at len(self.hosts).
WrapIdx(i) == IF i >= Len(hosts) THEN 0 ELSE i

Wrap(w) ==
  /\ pc[w] = "wrap"
  /\ hostIdx' = WrapIdx(hostIdx)
  /\ pc' = [pc EXCEPT ![w] = "release"]
  /\ UNCHANGED <<hosts, hostLock, host, vmOf, domain_name, served>>
  /\ UNCHANGED <<runVars, retryVars, remoteVars, lifeVars, argVars>>

\* getHost, line 97: self.hostLock.release().
Release(w) ==
  /\ pc[w] = "release"
  /\ hostLock' = IF hostLock = w THEN NoWorker ELSE hostLock
  /\ pc' = [pc EXCEPT ![w] = "assign"]
  /\ UNCHANGED <<hosts, hostIdx, host, vmOf, domain_name, served>>
  /\ UNCHANGED <<runVars, retryVars, remoteVars, lifeVars, argVars>>

\* getHost line 98 and initializeVM lines 127-129: the host is returned and
\* stored in vm.domain_name; the worker goes on to the machine's first
\* remote call (waitVM's ping, line 140).
Assign(w) ==
  /\ pc[w] = "assign"
  /\ domain_name' = [domain_name EXCEPT ![vmOf[w]] = host[w]]
  /\ pc' = [pc EXCEPT ![w] = "remote"]
  /\ UNCHANGED <<hosts, hostIdx, hostLock, host, vmOf, served>>
  /\ UNCHANGED <<runVars, retryVars, remoteVars, lifeVars, argVars>>

\* The worker's remote call on the machine returns; the worker is free for
\* the next machine.
RemoteDone(w) ==
  /\ pc[w] = "remote"
  /\ pc' = [pc EXCEPT ![w] = "idle"]
  /\ vmOf' = [vmOf EXCEPT ![w] = 0]
  /\ host' = [host EXCEPT ![w] = Unset]
  /\ UNCHANGED <<hosts, hostIdx, hostLock, domain_name, served>>
  /\ UNCHANGED <<runVars, retryVars, remoteVars, lifeVars, argVars>>

GetHostStep(w) ==
  \/ Acquire(w)
  \/ ReadHost(w)
  \/ Incr(w)
  \/ Wrap(w)
  \/ Release(w)
  \/ Assign(w)
  \/ RemoteDone(w)

NextPool ==
  \/ \E w \in Workers, v \in VMs : InitializeVM(w, v)
  \/ \E w \in Workers : GetHostStep(w)

InitPool == PoolStart /\ ParkedRun /\ ParkedRetry /\ ParkedLife /\ ParkedArgs

SpecPool == InitPool /\ [][NextPool]_vars

\* Every step of a call under way is eventually taken: a thread that can run
\* does run, and the lock, once free, is given to a waiting thread.
FairSpecPool == SpecPool /\ \A w \in Workers : WF_vars(GetHostStep(w))

\* ------------------------------------------------- claims on the host pool

Range(f) == {f[i] : i \in DOMAIN f}

\* The host the k-th call (k = 1, 2, ...) is due under round robin.
DueHost(k) == hosts[((k - 1) % Len(hosts)) + 1]

\* C1: from a fresh pool of N hosts the k-th getHost call returns
\* hosts[(k-1) mod N], and the machine that call provisions gets that host
\* as its domain_name (pool [hostA, hostB]: hostA, hostB, hostA).
C1_RoundRobinOrder ==
  \A k \in 1..Len(served) :
    /\ served[k][2] = DueHost(k)
    /\ domain_name[served[k][1]] \in {Unset, DueHost(k)}

\* Pool [hostA, hostB]: three machines provisioned, the third on hostA again.
C1_Witness ==
  /\ hosts = <<"hostA", "hostB">>
  /\ Len(served) = 3
  /\ domain_name[served[1][1]] = "hostA"
  /\ domain_name[served[2][1]] = "hostB"
  /\ domain_name[served[3][1]] = "hostA"

\* The hosts handed out by the b-th block of N calls, in lock order.
Block(b) ==
  {served[k][2] : k \in ((b - 1) * Len(hosts) + 1)..(b * Len(hosts))}

BlockFair ==
  \A b \in 1..(Len(served) \div Len(hosts)) : Block(b) = Range(hosts)

\* The lock is held only from line 92 to line 97 of getHost.
LockScope ==
  \A w \in Workers :
    /\ hostLock = w => pc[w] \in {"read", "incr", "wrap", "release"}
    /\ pc[w] \in {"idle", "acquire", "assign", "remote"} => hostLock # w

TimeoutCall(d) ==
  /\ tpc \in {"idle", "done"}
  /\ time_out' = d
  /\ t' = 0
  /\ proc' = "running"
  /\ status' = 0
  /\ lastPoll' = None
  /\ killSent' = FALSE
  /\ returncode' = 0
  /\ tpc' = "loop"
  /\ UNCHANGED <<poolVars, retryVars, remoteVars, lifeVars, argVars>>

\* The command ends on its own, at any moment, with exit status c.
ProcExit(c) ==
  /\ tpc \in {"loop", "sleep", "check", "kill"}
  /\ proc = "running"
  /\ proc' = "exited"
  /\ status' = c
  /\ UNCHANGED <<tpc, time_out, t, lastPoll, killSent, returncode>>
  /\ UNCHANGED <<poolVars, retryVars, remoteVars, lifeVars, argVars>>

\* p.poll(): None while the process runs, its exit status afterwards.
Poll == IF proc = "running" THEN None ELSE Some(status)

\* timeout, line 28: `t < time_out and p.poll() is None`; poll is not
\* called when t has reached time_out.
LoopTest ==
  /\ tpc = "loop"
  /\ IF t < time_out
       THEN /\ lastPoll' = Poll
            /\ tpc' = IF Poll.isNone THEN "sleep" ELSE "check"
       ELSE /\ lastPoll' = lastPoll
            /\ tpc' = "check"
  /\ UNCHANGED <<time_out, t, proc, status, killSent, returncode>>
  /\ UNCHANGED <<poolVars, retryVars, remoteVars, lifeVars, argVars>>

\* timeout, lines 29-30: sleep one poll interval and count it.
Sleep ==
  /\ tpc = "sleep"
  /\ t' = t + 1
  /\ tpc' = "loop"
  /\ UNCHANGED <<time_out, proc, status, lastPoll, killSent, returncode>>
  /\ UNCHANGED <<poolVars, retryVars, remoteVars, lifeVars, argVars>>

\* timeout, lines 35-37: the value for a poll result r at line 33.
Outcome(r) == IF r.isNone THEN -1 ELSE r.val

\* timeout, lines 33 and 36-37: p.poll() once more; a finished process
\* gives its status, a running one goes to the kill.
Check ==
  /\ tpc = "check"
  /\ lastPoll' = Poll
  /\ IF Poll.isNone
       THEN /\ tpc' = "kill"
            /\ UNCHANGED returncode
       ELSE /\ tpc' = "done"
            /\ returncode' = Outcome(Poll)
  /\ UNCHANGED <<time_out, t, proc, status, killSent>>
  /\ UNCHANGED <<poolVars, retryVars, remoteVars, lifeVars, argVars>>

\* A timeout path that sends no signal (mutant of KillEffect).
KillEffectNone(p) == p

\* /bin/kill -9 on the pid: a running process is ended, one that has just
\* exited on its own is left as it is.
KillEffect(p) == IF p = "running" THEN "killed" ELSE p

\* timeout, lines 34-35 and 38: kill -9, then -1 is returned.
Kill ==
  /\ tpc = "kill"
  /\ proc' = KillEffect(proc)
  /\ killSent' = TRUE
  /\ returncode' = Outcome(None)
  /\ tpc' = "done"
  /\ UNCHANGED <<time_out, t, status, lastPoll>>
  /\ UNCHANGED <<poolVars, retryVars, remoteVars, lifeVars, argVars>>

InitTimeout ==
  ParkedPool /\ ParkedRun /\ ParkedRetry /\ ParkedLife /\ ParkedArgs

NextTimeout ==
  \/ \E d \in 0..MaxDeadline : TimeoutCall(d)
  \/ \E c \in ExitStatuses : ProcExit(c)
  \/ LoopTest
  \/ Sleep
  \/ Check
  \/ Kill

SpecTimeout == InitTimeout /\ [][NextTimeout]_vars

C3_WitnessKilled ==
  /\ tpc = "done"
  /\ returncode = -1
  /\ proc = "killed"
  /\ t = time_out
  /\ time_out > 0

\* ------------------------- timeoutWithReturnStatus(command, t, returnValue)

tpcVars == <<tpc, lastPoll, killSent, returncode>>

\* timeoutWithReturnStatus, lines 45-48: first launch, t = 0; ret is not
\* assigned before the loop.
RetryCall(d, target) ==
  /\ rpc \in {"idle", "done"}
  /\ time_out' = d
  /\ returnValue' = target
  /\ t' = 0
  /\ proc' = "running"
  /\ status' = 0
  /\ ret' = None
  /\ retBound' = FALSE
  /\ result' = None
  /\ fault' = "none"
  /\ rpc' = "while"
  /\ UNCHANGED <<poolVars, tpcVars, remoteVars, lifeVars, argVars>>

\* The running invocation ends on its own with exit status c.
RetryExit(c) ==
  /\ rpc \in {"while", "poll", "sleep"}
  /\ proc = "running"
  /\ proc' = "exited"
  /\ status' = c
  /\ UNCHANGED <<time_out, t, retryVars>>
  /\ UNCHANGED <<poolVars, tpcVars, remoteVars, lifeVars, argVars>>

\* timeoutWithReturnStatus, line 49: while (t < time_out).
WhileTest ==
  /\ rpc = "while"
  /\ rpc' = IF t < time_out THEN "poll" ELSE "return"
  /\ UNCHANGED <<procVars, returnValue, ret, retBound, result, fault>>
  /\ UNCHANGED <<poolVars, tpcVars, remoteVars, lifeVars, argVars>>

\* timeoutWithReturnStatus, lines 50-59: ret = p.poll(); a running process
\* is waited for, the expected status is returned, any other status
\* launches the command again (t is not advanced on that branch).
RetryPoll ==
  /\ rpc = "poll"
  /\ ret' = Poll
  /\ retBound' = TRUE
  /\ IF Poll.isNone
       THEN /\ rpc' = "sleep"
            /\ UNCHANGED <<proc, status, result>>
       ELSE IF Poll.val = returnValue
         THEN /\ rpc' = "done"
              /\ result' = Poll
              /\ UNCHANGED <<proc, status>>
         ELSE /\ rpc' = "while"
              /\ proc' = "running"
              /\ UNCHANGED <<status, result>>
  /\ UNCHANGED <<time_out, t, returnValue, fault>>
  /\ UNCHANGED <<poolVars, tpcVars, remoteVars, lifeVars, argVars>>

\* timeoutWithReturnStatus, lines 52-53.
RetrySleep ==
  /\ rpc = "sleep"
  /\ t' = t + 1
  /\ rpc' = "while"
  /\ UNCHANGED <<time_out, proc, status, returnValue, ret, retBound, result, fault>>
  /\ UNCHANGED <<poolVars, tpcVars, remoteVars, lifeVars, argVars>>

\* timeoutWithReturnStatus, line 60: return ret.  The name is unbound when
\* the loop body never ran.
RetryReturn ==
  /\ rpc = "return"
  /\ IF retBound
       THEN /\ result' = ret
            /\ fault' = "none"
       ELSE /\ result' = None
            /\ fault' = "UnboundLocalError"
  /\ rpc' = "done"
  /\ UNCHANGED <<procVars, returnValue, ret, retBound>>
  /\ UNCHANGED <<poolVars, tpcVars, remoteVars, lifeVars, argVars>>

InitRetry ==
  ParkedPool /\ ParkedRun /\ ParkedRetry /\ ParkedLife /\ ParkedArgs

NextRetry ==
  \/ \E d \in 0..MaxDeadline, target \in ExitStatuses : RetryCall(d, target)
  \/ \E c \in ExitStatuses : RetryExit(c)
  \/ WhileTest
  \/ RetryPoll
  \/ RetrySleep
  \/ RetryReturn

SpecRetry == InitRetry /\ [][NextRetry]_vars

\* C4: timeoutWithReturnStatus returns the target as soon as an invocation
\* exits with it, and otherwise, for every deadline, an integer exit status
\* (that of the last invocation).
C4_ReturnsTargetOrLastStatus ==
  rpc = "done" =>
    /\ fault = "none"
    /\ ~result.isNone
    /\ result.val \in ExitStatuses

\* The part of C4 the code does satisfy: a returned integer is the target.
C4_IntegerIsTarget ==
  (rpc = "done" /\ fault = "none" /\ ~result.isNone) =>
     result.val = returnValue

\* The steps of the call itself; the thread running it is scheduled again
\* and again, whatever the command does.
RetryStep == WhileTest \/ RetryPoll \/ RetrySleep \/ RetryReturn

FairSpecRetry == SpecRetry /\ WF_vars(RetryStep)

\* C16: timeoutWithReturnStatus comes to an end whatever the command does:
\* a call under way always reaches its return, also when no invocation ever
\* exits with the expected status.
C16_RetryTerminates ==
  (rpc \in {"while", "poll", "sleep", "return"}) ~> (rpc = "done")

\* ------------------------------------------------------ the naming scheme

\* Strings that are split or matched are sequences of tokens; the separator
\* "-" is a token of its own.
DOCKER_VOLUME_PATH == <<"/opt/volumes/">>

\* The machines the lifecycle operations are called on, with the id and
\* image of each; a machine's name is its instance name (as in the records
\* getVMs builds, lines 314-318).
LifeVMs == {1, 2}
vmId(m) == IF m = 1 THEN <<"17">> ELSE <<"18">>
vmImage(m) == <<"ubuntu">>

\* instanceName, line 105: "%s-%s-%s" % (PREFIX, id, name).
instanceName(id, name) == PREFIX \o <<"-">> \o id \o <<"-">> \o name

vmName(m) == instanceName(vmId(m), vmImage(m))

\* getVolumePath, lines 108-112: the base path (resolved under the current
\* directory when it holds a '*') followed by the instance name.
getVolumePath(instName) ==
  LET volumePath == IF \E i \in DOMAIN DOCKER_VOLUME_PATH :
                          DOCKER_VOLUME_PATH[i] = "*"
                      THEN <<"cwd", "/", "volumes/">>
                      ELSE DOCKER_VOLUME_PATH
  IN [base |-> volumePath, name |-> instName]

\* The names bound at module level (the imports and definitions of
\* distDocker.py) and in each method that reads a name it may not have.
ModuleNames ==
  {"random", "subprocess", "re", "time", "logging", "threading", "os",
   "sys", "shutil", "config", "TangoMachine", "timeout",
   "timeoutWithReturnStatus", "DistDocker"}
CopyInNames ==
  {"self", "vm", "inputFiles", "domainName", "instanceName", "volumePath",
   "ret", "file"}
CopyOutNames ==
  {"self", "vm", "destFile", "domainName", "instanceName", "volumePath"}
ExistsVMNames == {"self", "vm", "vms", "vmnames"}

\* Whether reading `name` inside a method with those locals finds it;
\* otherwise Python raises NameError.
Bound(name, locals) == name \in locals \cup ModuleNames

\* --------------------------------------------------- the remote commands

\* Exit status of a remote shell given a command it cannot parse.
ShellSyntaxError == 2

\* A command line: what it does, the path or instance it names, and the
\* parentheses its text opens and closes.
\* copyIn, line 192: "(rm -rf %s; mkdir %s)".
ResetCmd(path) ==
  [verb |-> "rm -rf; mkdir", base |-> path.base, name |-> path.name,
   open |-> 1, close |-> 1]
\* copyIn, lines 200-202: scp of one file into the volume.
ScpInCmd(path) ==
  [verb |-> "scp", base |-> path.base, name |-> path.name,
   open |-> 0, close |-> 0]
\* copyOut, lines 257-260: scp of the feedback file out of the volume.
ScpOutCmd(path) ==
  [verb |-> "scp feedback", base |-> path.base, name |-> path.name,
   open |-> 0, close |-> 0]
\* destroyVM, line 276: "(docker rm -f %s)".
DockerRmCmd(instName) ==
  [verb |-> "docker rm -f", base |-> <<>>, name |-> instName,
   open |-> 1, close |-> 1]
\* A removal whose text closes its parenthesis (the mutant of VolumeRmCmd).
VolumeRmCmdClosed(path) ==
  [verb |-> "rm -rf", base |-> path.base, name |-> path.name,
   open |-> 1, close |-> 1]
\* destroyVM, line 283: "(rm -rf %s": the parenthesis is not closed.
VolumeRmCmd(path) ==
  [verb |-> "rm -rf", base |-> path.base, name |-> path.name,
   open |-> 1, close |-> 0]

\* What a remote command run through timeout() can come to: the value
\* timeout returns and how much of the command's effect took place.  ssh
\* gives 255 when it cannot connect, the remote shell's status otherwise;
\* -1 is timeout's own value, whatever the remote side had done by then.
SshOutcomes(cmd) ==
  IF cmd.open # cmd.close
    THEN {[r |-> 255, eff |-> "none"],
          [r |-> ShellSyntaxError, eff |-> "none"],
          [r |-> -1, eff |-> "none"]}
    ELSE {[r |-> 255, eff |-> "none"],
          [r |-> 0, eff |-> "full"],
          [r |-> 1, eff |-> "none"],
          [r |-> 1, eff |-> "partial"],
          [r |-> -1, eff |-> "none"],
          [r |-> -1, eff |-> "partial"],
          [r |-> -1, eff |-> "full"]}

Dir(h, n) == [host |-> h, name |-> n]

\* rm -rf of a path: the directory it names, or with an empty instance name
\* everything under the base path.
Removed(h, n) ==
  {d \in volumes : d.host = h /\ (n = <<>> \/ d.name = n)}
RemovedFiles(h, n) ==
  {f \in staged : f.host = h /\ (n = <<>> \/ f.name = n)}

\* "(rm -rf V; mkdir V)": in part, the directory is gone and not made again.
VolumesAfterReset(h, n, eff) ==
  CASE eff = "full" -> (volumes \ Removed(h, n)) \cup {Dir(h, n)}
    [] eff = "partial" -> volumes \ Removed(h, n)
    [] OTHER -> volumes
StagedAfterReset(h, n, eff) ==
  IF eff = "none" THEN staged ELSE staged \ RemovedFiles(h, n)

\* scp of file f into the directory: in part, a truncated file is left.
StagedAfterScp(h, n, f, eff) ==
  IF eff = "none" THEN staged
  ELSE staged \cup {[host |-> h, name |-> n, file |-> f]}

\* scp into a directory that does not exist copies nothing.
ScpOutcomes(h, path) ==
  IF Dir(h, path.name) \in volumes
    THEN SshOutcomes(ScpInCmd(path))
    ELSE {o \in SshOutcomes(ScpInCmd(path)) : o.eff = "none"}

\* One entry of an operation's record of the commands it issued.
Issued(cmd, file, deadline) ==
  [verb |-> cmd.verb, name |-> cmd.name, file |-> file,
   deadline |-> deadline]

\* ------------------------------------------- the lifecycle operations

\* destFile names of the input files a copyIn call may be given.
FileNames == <<"f1", "f2", "f3", "f4">>

\* Directory entries left under the base path by something other than the
\* operations below: one without the prefix, which is always there, and one
\* with the prefix and no image part, which may be.
Foreign == Dir("hostA", <<"lost+found">>)
Stray == Dir("hostA", PREFIX \o <<"-", "x">>)

\* Two hosts; every machine has been given one by initializeVM; machine 1's
\* container is left from an earlier run.
LifeStart ==
  /\ hosts = SubSeq(HostNames, 1, 2)
  /\ hostIdx = 0
  /\ hostLock = NoWorker
  /\ pc = <<>>
  /\ host = <<>>
  /\ vmOf = <<>>
  /\ served = <<>>
  /\ domain_name \in [LifeVMs -> {"hostA", "hostB"}]
  /\ domain_name[1] = "hostA"
  /\ volumes \in {{Foreign}, {Foreign, Stray}}
  /\ staged = {}
  /\ containers = {Dir("hostA", vmName(1))}
  /\ op = [m \in LifeVMs |-> "none"]
  /\ lpc = [m \in LifeVMs |-> "idle"]
  /\ inputFiles = [m \in LifeVMs |-> <<>>]
  /\ fileIdx = [m \in LifeVMs |-> 0]
  /\ calls = [m \in LifeVMs |-> <<>>]
  /\ lret = [m \in LifeVMs |-> None]
  /\ lfault = [m \in LifeVMs |-> "none"]
  /\ vms = [m \in LifeVMs |-> {}]
  /\ elapsed = [m \in LifeVMs |-> 0]
  /\ errlog = [m \in LifeVMs |-> FALSE]
  /\ lastR = [m \in LifeVMs |-> 0]

poolFrame == <<hosts, hostIdx, hostLock, pc, host, vmOf, domain_name, served>>
otherFrame == <<poolFrame, runVars, retryVars, argVars>>

\* A caller starts method `name` at position `at`.
Enter(m, name, at) ==
  /\ lpc[m] = "idle"
  /\ op' = [op EXCEPT ![m] = name]
  /\ lpc' = [lpc EXCEPT ![m] = at]
  /\ calls' = [calls EXCEPT ![m] = <<>>]
  /\ lret' = [lret EXCEPT ![m] = None]
  /\ lfault' = [lfault EXCEPT ![m] = "none"]
  /\ fileIdx' = [fileIdx EXCEPT ![m] = 0]
  /\ vms' = [vms EXCEPT ![m] = {}]
  /\ elapsed' = [elapsed EXCEPT ![m] = 0]
  /\ errlog' = [errlog EXCEPT ![m] = FALSE]
  /\ lastR' = [lastR EXCEPT ![m] = 0]

\* The method returns v / ends by raising e.
Return(m, v) ==
  /\ lpc' = [lpc EXCEPT ![m] = "returned"]
  /\ lret' = [lret EXCEPT ![m] = v]
  /\ UNCHANGED lfault
Raise(m, e) ==
  /\ lpc' = [lpc EXCEPT ![m] = "raised"]
  /\ lfault' = [lfault EXCEPT ![m] = e]
  /\ UNCHANGED lret

\* The caller takes note of the outcome and is ready for another call; the
\* locals of the finished call are gone.
Finish(m) ==
  /\ lpc[m] \in {"returned", "raised"}
  /\ lpc' = [lpc EXCEPT ![m] = "idle"]
  /\ op' = [op EXCEPT ![m] = "none"]
  /\ inputFiles' = [inputFiles EXCEPT ![m] = <<>>]
  /\ calls' = [calls EXCEPT ![m] = <<>>]
  /\ lret' = [lret EXCEPT ![m] = None]
  /\ lfault' = [lfault EXCEPT ![m] = "none"]
  /\ fileIdx' = [fileIdx EXCEPT ![m] = 0]
  /\ vms' = [vms EXCEPT ![m] = {}]
  /\ elapsed' = [elapsed EXCEPT ![m] = 0]
  /\ errlog' = [errlog EXCEPT ![m] = FALSE]
  /\ lastR' = [lastR EXCEPT ![m] = 0]
  /\ max_secs' = [x \in DOMAIN max_secs |-> IF x = m THEN 0 ELSE max_secs[x]]
  /\ instance_down' =
       [x \in DOMAIN instance_down |-> IF x = m THEN 1 ELSE instance_down[x]]
  /\ runTimeout' =
       [x \in DOMAIN runTimeout |-> IF x = m THEN 0 ELSE runTimeout[x]]
  /\ UNCHANGED <<remoteVars, poolFrame, runVars, retryVars, PREFIX>>

\* copyIn, lines 185-187, called with the first n input files.
CopyInCall(m, n) ==
  /\ Enter(m, "copyIn", "copyIn_reset")
  /\ inputFiles' = [inputFiles EXCEPT ![m] = SubSeq(FileNames, 1, n)]
  /\ UNCHANGED <<remoteVars, otherFrame>>

\* A copyIn that goes on to copy whatever the reset returned (the mutant of
\* ResetOk).
ResetOkAlways(r) == TRUE

\* copyIn, line 194: if ret == 0.
ResetOk(r) == r = 0

\* copyIn, lines 190-197: the volume is wiped and made again; any outcome
\* but 0 is returned at once.
CopyInReset(m, o) ==
  LET path == getVolumePath(vmName(m))
      cmd == ResetCmd(path)
  IN /\ lpc[m] = "copyIn_reset"
     /\ o \in SshOutcomes(cmd)
     /\ volumes' = VolumesAfterReset(domain_name[m], path.name, o.eff)
     /\ staged' = StagedAfterReset(domain_name[m], path.name, o.eff)
     /\ calls' = [calls EXCEPT
                    ![m] = Append(@, Issued(cmd, "", "COPYIN_TIMEOUT"))]
     /\ lastR' = [lastR EXCEPT ![m] = o.r]
     /\ IF ResetOk(o.r)
          THEN /\ lpc' = [lpc EXCEPT ![m] = "copyIn_for"]
               /\ fileIdx' = [fileIdx EXCEPT ![m] = 1]
               /\ UNCHANGED <<lret, lfault>>
          ELSE /\ Return(m, Some(o.r))
               /\ UNCHANGED fileIdx
     /\ UNCHANGED <<containers, op, inputFiles, vms, elapsed, errlog>>
     /\ UNCHANGED otherFrame

\* copyIn, lines 199-211: the next file is copied; 0 goes on to the file
\* after it; any other outcome is logged (the message reads domain_name)
\* and returned.
CopyInScp(m, o) ==
  LET path == getVolumePath(vmName(m))
      cmd == ScpInCmd(path)
      f == inputFiles[m][fileIdx[m]]
  IN /\ lpc[m] = "copyIn_for"
     /\ fileIdx[m] <= Len(inputFiles[m])
     /\ o \in ScpOutcomes(domain_name[m], path)
     /\ staged' = StagedAfterScp(domain_name[m], path.name, f, o.eff)
     /\ calls' = [calls EXCEPT
                    ![m] = Append(@, Issued(cmd, f, "COPYIN_TIMEOUT"))]
     /\ lastR' = [lastR EXCEPT ![m] = o.r]
     /\ IF o.r = 0
          THEN /\ fileIdx' = [fileIdx EXCEPT ![m] = @ + 1]
               /\ UNCHANGED <<lpc, lret, lfault>>
          ELSE /\ IF Bound("domain_name", CopyInNames)
                    THEN Return(m, Some(o.r))
                    ELSE Raise(m, "NameError")
               /\ UNCHANGED fileIdx
     /\ UNCHANGED <<volumes, containers, op, inputFiles, vms, elapsed, errlog>>
     /\ UNCHANGED otherFrame

\* copyIn, line 213: every file was copied.
CopyInDone(m) ==
  /\ lpc[m] = "copyIn_for"
  /\ fileIdx[m] > Len(inputFiles[m])
  /\ Return(m, Some(0))
  /\ UNCHANGED <<op, inputFiles, fileIdx, calls, vms, elapsed, errlog, lastR>>
  /\ UNCHANGED <<remoteVars, otherFrame>>

\* How far time.time() may move on during one remote command, in poll
\* intervals; it is read by safeDestroyVM only.
Ticks(m) == IF op[m] = "safeDestroyVM" THEN 0..1 ELSE {0}

\* time.time() moves on by dt while a remote command of safeDestroyVM runs;
\* past DESTROY_SECS + 1 its value makes no difference.
Later(m, dt) ==
  IF op[m] = "safeDestroyVM" /\ elapsed[m] + dt <= DESTROY_SECS + 1
    THEN elapsed[m] + dt
    ELSE elapsed[m]

\* destroyVM, lines 271-273, called on its own.
DestroyCall(m) ==
  /\ Enter(m, "destroyVM", "destroy_docker")
  /\ UNCHANGED inputFiles
  /\ UNCHANGED <<remoteVars, otherFrame>>

ContainersAfterRm(h, n, eff) ==
  IF eff = "full" THEN containers \ {Dir(h, n)} ELSE containers

\* A destroyVM that gives up when the container removal fails (the mutant
\* of AfterDockerRm).
AfterDockerRmChecked(r) == IF r = 0 THEN "destroy_volume" ELSE "returned"

\* destroyVM, lines 274-280: "Return status does not matter": whatever
\* timeout returned, the volume removal is next.
AfterDockerRm(r) == "destroy_volume"

\* destroyVM, lines 276-279: docker rm -f of the instance, bounded by
\* DOCKER_RM_TIMEOUT (read with the comma that line 278 lacks).
DestroyDockerRm(m, o, dt) ==
  LET cmd == DockerRmCmd(vmName(m))
  IN /\ lpc[m] = "destroy_docker"
     /\ dt \in Ticks(m)
     /\ o \in SshOutcomes(cmd)
     /\ containers' = ContainersAfterRm(domain_name[m], vmName(m), o.eff)
     /\ calls' = [calls EXCEPT
                    ![m] = Append(@, Issued(cmd, "", "DOCKER_RM_TIMEOUT"))]
     /\ lastR' = [lastR EXCEPT ![m] = o.r]
     /\ lpc' = [lpc EXCEPT ![m] = AfterDockerRm(o.r)]
     /\ elapsed' = [elapsed EXCEPT ![m] = Later(m, dt)]
     /\ UNCHANGED <<volumes, staged, op, inputFiles, fileIdx, lret, lfault,
                    vms, errlog>>
     /\ UNCHANGED otherFrame

\* destroyVM, lines 273 and 281-285: rm -rf of getVolumePath(''), bounded by
\* timeout's default time_out; its outcome is dropped and destroyVM returns
\* None.  Its callers go on: copyOut returns 0 (line 266), safeDestroyVM
\* tests existsVM again (line 292).
DestroyVolumeRm(m, o, dt) ==
  LET path == getVolumePath(<<>>)
      cmd == VolumeRmCmd(path)
  IN /\ lpc[m] = "destroy_volume"
     /\ dt \in Ticks(m)
     /\ o \in SshOutcomes(cmd)
     /\ volumes' = IF o.eff = "none" THEN volumes
                   ELSE volumes \ Removed(domain_name[m], path.name)
     /\ staged' = IF o.eff = "none" THEN staged
                  ELSE staged \ RemovedFiles(domain_name[m], path.name)
     /\ calls' = [calls EXCEPT
                    ![m] = Append(@, Issued(cmd, "", "default"))]
     /\ lastR' = [lastR EXCEPT ![m] = o.r]
     /\ elapsed' = [elapsed EXCEPT ![m] = Later(m, dt)]
     /\ CASE op[m] = "copyOut" ->
               /\ Return(m, Some(0))
               /\ UNCHANGED vms
          [] op[m] = "safeDestroyVM" ->
               /\ lpc' = [lpc EXCEPT ![m] = "getVMs_ls"]
               /\ vms' = [vms EXCEPT ![m] = {}]
                            /\ UNCHANGED <<lret, lfault>>
          [] OTHER ->
               /\ Return(m, None)
               /\ UNCHANGED vms
     /\ UNCHANGED <<containers, op, inputFiles, fileIdx, errlog>>
     /\ UNCHANGED otherFrame

\* copyOut, lines 253-255.
CopyOutCall(m) ==
  /\ Enter(m, "copyOut", "copyOut_scp")
  /\ UNCHANGED inputFiles
  /\ UNCHANGED <<remoteVars, otherFrame>>

\* copyOut, lines 257-264: the arguments of the scp are built first, and
\* they read domain_name; then the feedback file is copied, and whatever
\* that returned, destroyVM(vm) is called.
CopyOutScp(m, o) ==
  LET cmd == ScpOutCmd(getVolumePath(vmName(m)))
  IN /\ lpc[m] = "copyOut_scp"
     /\ o \in SshOutcomes(cmd)
     /\ IF Bound("domain_name", CopyOutNames)
          THEN /\ calls' = [calls EXCEPT
                    ![m] = Append(@, Issued(cmd, "feedback", "COPYOUT_TIMEOUT"))]
               /\ lastR' = [lastR EXCEPT ![m] = o.r]
               /\ lpc' = [lpc EXCEPT ![m] = "destroy_docker"]
               /\ UNCHANGED <<lret, lfault>>
          ELSE /\ Raise(m, "NameError")
               /\ UNCHANGED <<calls, lastR>>
     /\ UNCHANGED <<op, inputFiles, fileIdx, vms, elapsed, errlog>>
     /\ UNCHANGED <<remoteVars, otherFrame>>

\* ------------------------------------------ getVMs, existsVM, safeDestroyVM

\* volume.split('-'): the pieces of s between its "-" tokens.
RECURSIVE SplitFrom(_, _, _)
SplitFrom(s, i, piece) ==
  IF i > Len(s) THEN <<piece>>
  ELSE IF s[i] = "-" THEN <<piece>> \o SplitFrom(s, i + 1, <<>>)
  ELSE SplitFrom(s, i + 1, Append(piece, s[i]))

Split(s) == SplitFrom(s, 1, <<>>)

\* getVMs, line 311: re.match("%s-" % PREFIX, volume).
MatchesPrefix(volume) ==
  /\ Len(volume) >= Len(PREFIX) + 1
  /\ SubSeq(volume, 1, Len(PREFIX) + 1) = PREFIX \o <<"-">>

\* getVMs, lines 312-319: the record built for a directory entry.
Machine(volume, h) ==
  [vmms |-> "distDocker", name |-> volume, domain_name |-> h,
   id |-> Split(volume)[2], image |-> Split(volume)[3]]

\* getVMs, lines 304-305, called on its own.
GetVMsCall(m) ==
  /\ Enter(m, "getVMs", "getVMs_ls")
  /\ UNCHANGED inputFiles
  /\ UNCHANGED <<remoteVars, otherFrame>>

\* existsVM, line 325: vms = self.getVMs().
ExistsCall(m) ==
  /\ Enter(m, "existsVM", "getVMs_ls")
  /\ UNCHANGED inputFiles
  /\ UNCHANGED <<remoteVars, otherFrame>>

\* safeDestroyVM, lines 291-292: start_time is taken and existsVM called.
SafeDestroyCall(m) ==
  /\ Enter(m, "safeDestroyVM", "getVMs_ls")
  /\ UNCHANGED inputFiles
  /\ UNCHANGED <<remoteVars, otherFrame>>

\* getVMs, lines 304-320: the loop over self.hosts.  Each listing is read
\* with subprocess.check_output, which has no deadline: it returns the
\* output ("ok"), raises CalledProcessError on a non-zero exit ("fail"), or
\* does not return while the command does not end ("hang").  An entry with
\* the prefix and fewer than three pieces raises IndexError at line 318.
GetVMsLs(m, out, dt) ==
  LET found == {d \in volumes : d.host \in Range(hosts) /\ MatchesPrefix(d.name)}
  IN /\ lpc[m] = "getVMs_ls"
     /\ dt \in Ticks(m)
     /\ elapsed' = [elapsed EXCEPT ![m] = Later(m, dt)]
     /\ CASE out = "hang" ->
               /\ lpc' = [lpc EXCEPT ![m] = "blocked"]
               /\ UNCHANGED <<lret, lfault, vms>>
          [] out = "fail" ->
               /\ Raise(m, "CalledProcessError")
               /\ UNCHANGED vms
          [] OTHER ->
               IF \E d \in found : Len(Split(d.name)) < 3
                 THEN /\ Raise(m, "IndexError")
                      /\ UNCHANGED vms
                 ELSE /\ vms' = [vms EXCEPT
                                   ![m] = {Machine(d.name, d.host) : d \in found}]
                      /\ IF op[m] = "getVMs"
                           THEN Return(m, None)
                           ELSE /\ lpc' = [lpc EXCEPT ![m] = "exists_test"]
                                /\ UNCHANGED <<lret, lfault>>
     /\ UNCHANGED <<op, inputFiles, fileIdx, calls, errlog, lastR>>
     /\ UNCHANGED <<remoteVars, otherFrame>>

\* A Python bool as a returned value.
Bool(b) == Some(IF b THEN 1 ELSE 0)

\* existsVM, lines 326-327: vmnames is built from vms and the membership
\* test reads vmname.  For safeDestroyVM the result drives the loop of
\* lines 292-298: gone, return; past DESTROY_SECS, log an error and return;
\* otherwise destroyVM.
ExistsTest(m) ==
  LET vmnames == {v.name : v \in vms[m]}
      exists == vmName(m) \in vmnames
  IN /\ lpc[m] = "exists_test"
     /\ IF ~Bound("vmname", ExistsVMNames)
          THEN /\ Raise(m, "NameError")
               /\ UNCHANGED errlog
          ELSE IF op[m] = "existsVM"
            THEN /\ Return(m, Bool(exists))
                 /\ UNCHANGED errlog
            ELSE IF ~exists
              THEN /\ Return(m, None)
                   /\ UNCHANGED errlog
              ELSE IF elapsed[m] > DESTROY_SECS
                THEN /\ Return(m, None)
                     /\ errlog' = [errlog EXCEPT ![m] = TRUE]
                ELSE /\ lpc' = [lpc EXCEPT ![m] = "destroy_docker"]
                     /\ UNCHANGED <<lret, lfault, errlog>>
     /\ UNCHANGED <<op, inputFiles, fileIdx, calls, vms, elapsed, lastR>>
     /\ UNCHANGED <<remoteVars, otherFrame>>

InitLife == ParkedArgs /\ LifeStart /\ ParkedRun /\ ParkedRetry

NextLife ==
  \/ \E m \in LifeVMs, n \in 0..MaxFiles : CopyInCall(m, n)
  \/ \E m \in LifeVMs, o \in SshOutcomes(ResetCmd(getVolumePath(<<>>))) :
       CopyInReset(m, o)
  \/ \E m \in LifeVMs, o \in SshOutcomes(ScpInCmd(getVolumePath(<<>>))) :
       CopyInScp(m, o)
  \/ \E m \in LifeVMs : CopyInDone(m)
  \/ \E m \in LifeVMs : CopyOutCall(m)
  \/ \E m \in LifeVMs, o \in SshOutcomes(ScpOutCmd(getVolumePath(<<>>))) :
       CopyOutScp(m, o)
  \/ \E m \in LifeVMs : DestroyCall(m)
  \/ \E m \in LifeVMs, o \in SshOutcomes(DockerRmCmd(<<>>)), dt \in 0..1 :
       DestroyDockerRm(m, o, dt)
  \/ \E m \in LifeVMs, o \in SshOutcomes(VolumeRmCmd(getVolumePath(<<>>))),
        dt \in 0..1 :
       DestroyVolumeRm(m, o, dt)
  \/ \E m \in LifeVMs : GetVMsCall(m)
  \/ \E m \in LifeVMs : ExistsCall(m)
  \/ \E m \in LifeVMs : SafeDestroyCall(m)
  \/ \E m \in LifeVMs, out \in {"ok", "fail", "hang"}, dt \in 0..1 :
       GetVMsLs(m, out, dt)
  \/ \E m \in LifeVMs : ExistsTest(m)
  \/ \E m \in LifeVMs : Finish(m)

SpecLife == InitLife /\ [][NextLife]_vars

\* ------------------------------------------ claims on the lifecycle methods

Ended(m) == lpc[m] \in {"returned", "raised"}

\* The commands of calls[m] that are file copies.
Copies(m) == {i \in DOMAIN calls[m] : calls[m][i].verb = "scp"}

\* C5: in copyIn, when the command that wipes and recreates the volume
\* returns anything but 0 (-1 included), copyIn has returned exactly that
\* value and issues no copy for any input file.
C5_ResetFailureReturns ==
  [][\A m \in LifeVMs :
       (op[m] = "copyIn" /\ Len(calls[m]) = 1 /\ lastR[m] # 0) =>
         /\ lpc[m] = "returned"
         /\ lret[m] = Some(lastR[m])
         /\ Copies(m) = {}
         /\ calls'[m] \in {calls[m], <<>>}]_vars

\* copyIn with two input files returned -1 after the reset timed out.
C5_Witness ==
  \E m \in LifeVMs :
    /\ op[m] = "copyIn"
    /\ lpc[m] = "returned"
    /\ Len(inputFiles[m]) = 2
    /\ Len(calls[m]) = 1
    /\ lastR[m] = -1
    /\ lret[m] = Some(-1)

\* The files of machine m's volume on its host.
Present(m) ==
  {f.file : f \in {x \in staged : x.host = domain_name[m] /\ x.name = vmName(m)}}

FilesOf(m, from, to) == {inputFiles[m][i] : i \in from..to}

\* C6: copyIn after a successful reset: if the copy of file k is the first
\* to fail the call returns that copy's outcome, files 1..k-1 are in place,
\* files k..m are absent and no copy of k+1..m was tried; 0 is returned only
\* when all m copies returned 0.
C6_FirstFailedCopy ==
  \A m \in LifeVMs :
    (op[m] = "copyIn" /\ Ended(m) /\ Len(calls[m]) > 1) =>
      LET n == Len(calls[m]) - 1
          all == Len(inputFiles[m])
      IN IF lastR[m] # 0
           THEN /\ lfault[m] = "none"
                /\ lret[m] = Some(lastR[m])
                /\ FilesOf(m, 1, n - 1) \subseteq Present(m)
                /\ FilesOf(m, n, all) \cap Present(m) = {}
           ELSE /\ lret[m] = Some(0)
                /\ n = all

\* C7: every copyOut call runs destroyVM on the machine exactly once, after
\* the copy of the feedback file and whatever that copy returned, and then
\* returns 0.
C7_CopyOutDestroysOnce ==
  \A m \in LifeVMs :
    (op[m] = "copyOut" /\ Ended(m)) =>
      /\ lfault[m] = "none"
      /\ lret[m] = Some(0)
      /\ Len(calls[m]) = 3
      /\ calls[m][1].verb = "scp feedback"
      /\ calls[m][2].verb = "docker rm -f"
      /\ calls[m][3].verb = "rm -rf"

C9_SafeDestroyReturns ==
  \A m \in LifeVMs :
    op[m] = "safeDestroyVM" => lpc[m] \notin {"blocked", "raised"}

\* C10: existsVM, once getVMs has given it the records, returns whether the
\* machine's name is among the records' names.
C10_ExistsIsMembership ==
  \A m \in LifeVMs :
    (op[m] = "existsVM" /\ Ended(m)
       /\ lfault[m] \notin {"CalledProcessError", "IndexError"}) =>
      /\ lfault[m] = "none"
      /\ lret[m] = Bool(vmName(m) \in {v.name : v \in vms[m]})

\* ---------------------------------------------- the naming scheme, both ways

\* Values config.Config.PREFIX may be given, and the ids and images of the
\* machines whose directories are found; no id or image holds a "-".
Prefixes == {<<"tango">>, <<"local">>, <<"tango", "-", "dev">>}
Ids == {<<"17">>, <<"18">>}
Images == {<<"ubuntu">>, <<"rhel">>}

\* No caller has a lifecycle method under way.
CallersIdle ==
  /\ op = [m \in LifeVMs |-> "none"]
  /\ lpc = [m \in LifeVMs |-> "idle"]
  /\ inputFiles = [m \in LifeVMs |-> <<>>]
  /\ fileIdx = [m \in LifeVMs |-> 0]
  /\ calls = [m \in LifeVMs |-> <<>>]
  /\ lret = [m \in LifeVMs |-> None]
  /\ lfault = [m \in LifeVMs |-> "none"]
  /\ vms = [m \in LifeVMs |-> {}]
  /\ elapsed = [m \in LifeVMs |-> 0]
  /\ errlog = [m \in LifeVMs |-> FALSE]
  /\ lastR = [m \in LifeVMs |-> 0]

\* A host holds one directory named by instanceName, next to an entry that
\* is none of the backend's; the callers of getVMs are idle.
NamingStart ==
  /\ PREFIX \in Prefixes
  /\ max_secs = <<>>
  /\ instance_down = <<>>
  /\ runTimeout = <<>>
  /\ hosts = SubSeq(HostNames, 1, 2)
  /\ hostIdx = 0
  /\ hostLock = NoWorker
  /\ pc = <<>>
  /\ host = <<>>
  /\ vmOf = <<>>
  /\ served = <<>>
  /\ domain_name = [m \in LifeVMs |-> "hostA"]
  /\ \E h \in Range(hosts), id \in Ids, image \in Images, x \in SUBSET {Foreign} :
       volumes = {Dir(h, instanceName(id, image))} \cup x
  /\ staged = {}
  /\ containers = {}
  /\ CallersIdle

InitNaming == NamingStart /\ ParkedRun /\ ParkedRetry

NextNaming ==
  \/ \E m \in LifeVMs : GetVMsCall(m)
  \/ \E m \in LifeVMs, out \in {"ok", "fail", "hang"}, dt \in 0..1 :
       GetVMsLs(m, out, dt)
  \/ \E m \in LifeVMs : Finish(m)

SpecNaming == InitNaming /\ [][NextNaming]_vars

\* C11: for every configured prefix and every id and image without "-", a
\* directory named instanceName(id, image) on host h is turned by getVMs
\* into a record whose id, image and domain_name are id, image and h.
C11_NamingRoundTrip ==
  \A m \in LifeVMs, h \in Range(hosts), id \in Ids, image \in Images :
    (/\ op[m] = "getVMs"
     /\ lpc[m] = "returned"
     /\ Dir(h, instanceName(id, image)) \in volumes) =>
       \E v \in vms[m] :
         /\ v.name = instanceName(id, image)
         /\ v.domain_name = h
         /\ v.id = id
         /\ v.image = image

\* ------------------------------------------------------------------ waitVM

\* Exit statuses of `ping -c 1`: a reply, no reply, an error.
PingStatuses == {0, 1, 2}

\* waitVM, line 171: the no-op remote command "(:)".
NoopCmd ==
  [verb |-> "ssh (:)", base |-> <<>>, name |-> <<>>, open |-> 1, close |-> 1]

\* The values timeout() can return for a remote command.
SshStatuses(cmd) == {o.r : o \in SshOutcomes(cmd)}

\* Every machine has a host; no remote state is touched by waitVM.
WaitStart ==
  /\ PREFIX = <<"tango">>
  /\ max_secs = [m \in LifeVMs |-> 0]
  /\ instance_down = [m \in LifeVMs |-> 1]
  /\ runTimeout = <<>>
  /\ hosts = SubSeq(HostNames, 1, 2)
  /\ hostIdx = 0
  /\ hostLock = NoWorker
  /\ pc = <<>>
  /\ host = <<>>
  /\ vmOf = <<>>
  /\ served = <<>>
  /\ domain_name = [m \in LifeVMs |-> "hostA"]
  /\ volumes = {}
  /\ staged = {}
  /\ containers = {}
  /\ CallersIdle

waitFrame == <<poolFrame, runVars, retryVars, remoteVars, PREFIX, runTimeout>>

\* waitVM, lines 134-138: instance_down = 1 and start_time is taken.
WaitVMCall(m, d) ==
  /\ Enter(m, "waitVM", "wait_ping")
  /\ max_secs' = [max_secs EXCEPT ![m] = d]
  /\ instance_down' = [instance_down EXCEPT ![m] = 1]
  /\ UNCHANGED inputFiles
  /\ UNCHANGED waitFrame

\* A deadline test that never gives up (the mutant of GiveUp).
GiveUpNever(e, d) == FALSE

\* waitVM, lines 150 and 161: elapsed_secs > max_secs.
GiveUp(e, d) == e > d

\* time.time() - start_time after dt more poll intervals.  No call of the
\* source lets it pass max_secs by more than one command and one sleep.
Elapse(e, dt) == IF e + dt <= MaxDeadline + 3 THEN e + dt ELSE e

\* waitVM, lines 139-151: one round of the first loop.  The ping ends with
\* status res after dt intervals; a failed ping is followed by a sleep of
\* one interval and the deadline test.
WaitPing(m, res, dt) ==
  /\ lpc[m] = "wait_ping"
  /\ instance_down[m] # 0
  /\ instance_down' = [instance_down EXCEPT ![m] = res]
  /\ IF res # 0
       THEN /\ elapsed' = [elapsed EXCEPT ![m] = Elapse(@, dt + 1)]
            /\ IF GiveUp(Elapse(elapsed[m], dt + 1), max_secs[m])
                 THEN Return(m, Some(-1))
                 ELSE UNCHANGED <<lpc, lret, lfault>>
       ELSE /\ elapsed' = [elapsed EXCEPT ![m] = Elapse(@, dt)]
            /\ lpc' = [lpc EXCEPT ![m] = "wait_ssh"]
            /\ UNCHANGED <<lret, lfault>>
  /\ UNCHANGED <<op, inputFiles, fileIdx, calls, vms, errlog, lastR, max_secs>>
  /\ UNCHANGED waitFrame

\* An ssh test that takes a connection failure for a ready machine (the
\* mutant of SshReady).
SshReadyOn255(r) == r # -1

\* waitVM, line 174: (ret != -1) and (ret != 255).
SshReady(r) == (r # -1) /\ (r # 255)

\* The deadline the whole budget would give (the mutant of Remaining).
RemainingWhole(d, e) == d

\* waitVM, line 171: max_secs - elapsed_secs.
Remaining(d, e) == d - e

\* waitVM, lines 156-178: one round of the second loop.  Past the budget -1
\* is returned; otherwise the no-op command is run through timeout() with
\* the remaining budget as its deadline.  timeout() returns -1 when that
\* deadline has passed and the command's status r before it; a status other
\* than -1 and 255 returns 0, and after any other the loop sleeps one
\* interval.
WaitSsh(m, r, dt) ==
  LET budget == Remaining(max_secs[m], elapsed[m])
  IN /\ lpc[m] = "wait_ssh"
     /\ IF GiveUp(elapsed[m], max_secs[m])
          THEN /\ r = -1
               /\ dt = 0
               /\ Return(m, Some(-1))
               /\ UNCHANGED <<calls, lastR, elapsed>>
          ELSE /\ r \in SshStatuses(NoopCmd)
               /\ IF r = -1 THEN dt = budget ELSE dt <= budget
               /\ calls' = [calls EXCEPT
                              ![m] = Append(@, Issued(NoopCmd, "", budget))]
               /\ lastR' = [lastR EXCEPT ![m] = r]
               /\ IF SshReady(r)
                    THEN /\ elapsed' = [elapsed EXCEPT ![m] = Elapse(@, dt)]
                         /\ Return(m, Some(0))
                    ELSE /\ elapsed' = [elapsed EXCEPT ![m] = Elapse(@, dt + 1)]
                         /\ UNCHANGED <<lpc, lret, lfault>>
     /\ UNCHANGED <<op, inputFiles, fileIdx, vms, errlog, max_secs,
                    instance_down>>
     /\ UNCHANGED waitFrame

WaitStep(m) ==
  \/ \E res \in PingStatuses, dt \in 0..1 : WaitPing(m, res, dt)
  \/ \E r \in SshStatuses(NoopCmd), dt \in 0..(MaxDeadline + 3) : WaitSsh(m, r, dt)

InitWait == WaitStart /\ ParkedRun /\ ParkedRetry

\* waitVM reads and writes nothing but its own locals, so one caller shows
\* all it can do.
WaitCallers == {1}

NextWait ==
  \/ \E m \in WaitCallers, d \in 0..MaxDeadline : WaitVMCall(m, d)
  \/ \E m \in WaitCallers : WaitStep(m)
  \/ \E m \in WaitCallers : Finish(m)

SpecWait == InitWait /\ [][NextWait]_vars

\* A call under way keeps running: the thread is scheduled, and ping, sleep
\* and the bounded ssh all come to an end.
FairSpecWait == SpecWait /\ \A m \in WaitCallers : WF_vars(WaitStep(m))

\* ------------------------------------------------------- claims on waitVM

Waiting(m) == op[m] = "waitVM"

\* The attempt a step of waitVM adds to calls[m].
LastCall(c) == c[Len(c)]

WaitClockInRange ==
  \A m \in LifeVMs : Waiting(m) => elapsed[m] <= max_secs[m] + 2

\* ------------------------------------------------------------------ runJob

\* config.Config.RUNJOB_TIMEOUT, in poll intervals.
RUNJOB_TIMEOUT == 2

\* The names runJob binds before line 239.
RunJobNames ==
  {"self", "vm", "runTimeout", "maxOutputFileSize", "domainName",
   "instanceName", "volumePath", "autodriverCmd", "setupCmd", "args"}

\* runJob, lines 226-235: "(docker run --name %s -v %s:/home/mount %s sh -c
\* ...)" (read with the line continuation that line 234 lacks).
DockerRunCmd(path) ==
  [verb |-> "docker run", base |-> path.base, name |-> path.name,
   open |-> 1, close |-> 1]

\* Every machine has a host and a volume of its own.
RunStart ==
  /\ PREFIX = <<"tango">>
  /\ max_secs = <<>>
  /\ instance_down = <<>>
  /\ runTimeout = [m \in LifeVMs |-> 0]
  /\ hosts = SubSeq(HostNames, 1, 2)
  /\ hostIdx = 0
  /\ hostLock = NoWorker
  /\ pc = <<>>
  /\ host = <<>>
  /\ vmOf = <<>>
  /\ served = <<>>
  /\ domain_name \in [LifeVMs -> Range(hosts)]
  /\ volumes = {Dir(domain_name[m], vmName(m)) : m \in LifeVMs}
  /\ staged = {}
  /\ containers = {}
  /\ CallersIdle

runFrame == <<poolFrame, runVars, retryVars, PREFIX, max_secs, instance_down>>

\* runJob, lines 222-224.
RunJobCall(m, rt) ==
  /\ Enter(m, "runJob", "runJob_ssh")
  /\ runTimeout' = [runTimeout EXCEPT ![m] = rt]
  /\ UNCHANGED inputFiles
  /\ UNCHANGED <<remoteVars, runFrame>>

\* runJob, lines 239-245: the arguments of the ssh are built first, and
\* they read domain_name; then the container is run under the deadline
\* RUNJOB_TIMEOUT (read with the bracket that line 241 lacks) and the value
\* of timeout() is returned.  The container exists once docker has started
\* it; the feedback file is in the volume when the command ran to its end.
RunJobSsh(m, o) ==
  LET path == getVolumePath(vmName(m))
      cmd == DockerRunCmd(path)
      h == domain_name[m]
  IN /\ lpc[m] = "runJob_ssh"
     /\ o \in SshOutcomes(cmd)
     /\ IF Bound("domain_name", RunJobNames)
          THEN /\ calls' = [calls EXCEPT
                              ![m] = Append(@, Issued(cmd, "", RUNJOB_TIMEOUT))]
               /\ lastR' = [lastR EXCEPT ![m] = o.r]
               /\ containers' = IF o.eff = "none" THEN containers
                                ELSE containers \cup {Dir(h, path.name)}
               /\ staged' = IF o.eff = "full" /\ Dir(h, path.name) \in volumes
                              THEN staged \cup {[host |-> h, name |-> path.name,
                                                 file |-> "feedback"]}
                              ELSE staged
               /\ Return(m, Some(o.r))
          ELSE /\ Raise(m, "NameError")
               /\ UNCHANGED <<calls, lastR, containers, staged>>
     /\ UNCHANGED <<volumes, op, inputFiles, fileIdx, vms, elapsed, errlog,
                    runTimeout>>
     /\ UNCHANGED runFrame

InitRun == RunStart /\ ParkedRun /\ ParkedRetry

NextRun ==
  \/ \E m \in LifeVMs, rt \in 0..MaxDeadline : RunJobCall(m, rt)
  \/ \E m \in LifeVMs, o \in SshOutcomes(DockerRunCmd(getVolumePath(<<>>))) :
       RunJobSsh(m, o)
  \/ \E m \in LifeVMs : Finish(m)

SpecRun == InitRun /\ [][NextRun]_vars

\* C19: runJob issues exactly one remote-shell command, returns what that
\* command came to, and bounds it by a deadline strictly greater than the
\* runTimeout it was given.
C19_RunJobOneCall ==
  \A m \in LifeVMs :
    (op[m] = "runJob" /\ Ended(m)) =>
      /\ lfault[m] = "none"
      /\ Len(calls[m]) = 1
      /\ calls[m][1].verb = "docker run"
      /\ lret[m] = Some(lastR[m])
      /\ calls[m][1].deadline > runTimeout[m]

\* ----------------------------------- further claims on the lifecycle methods

\* C13: no lifecycle operation ends by raising: a timeout or a non-zero
\* status of a remote command is returned as a status code or, in destroyVM
\* and safeDestroyVM, dropped.
C13_NoOperationRaises ==
  \A m \in LifeVMs : lpc[m] # "raised" /\ lfault[m] = "none"

\* The working directory of machine m on its host, and the files in it.
OwnDir(m) == Dir(domain_name[m], vmName(m))
OwnFiles(m) == {f \in staged : f.host = domain_name[m] /\ f.name = vmName(m)}

\* Machine m's caller is the one taking a step of destroyVM.
DestroyStep(m) ==
  /\ lpc[m] \in {"destroy_docker", "destroy_volume"}
  /\ calls'[m] # calls[m]

\* C14: destroyVM(m) removes only the container named instanceName(m.id,
\* m.image) and the working directory derived from that name: its commands
\* name nothing else, and the directory and files of any other machine are
\* as they were after each of its steps.
C14_DestroyOnlyOwnVolume ==
  /\ [](\A m \in LifeVMs : \A i \in DOMAIN calls[m] :
          calls[m][i].verb \in {"docker rm -f", "rm -rf"} =>
            calls[m][i].name = vmName(m))
  /\ [][\A m, m2 \in LifeVMs :
          (m # m2 /\ vmId(m) # vmId(m2) /\ DestroyStep(m)) =>
            /\ OwnDir(m2) \in volumes => OwnDir(m2) \in volumes'
            /\ OwnFiles(m2) \subseteq staged']_vars

\* The names of the records getVMs gave machine m's caller.
Listed(m) == {v.name : v \in vms[m]}

\* existsVM or safeDestroyVM came to an end with the listings read.
EndedAfterListing(m) ==
  /\ Ended(m)
  /\ lfault[m] \notin {"CalledProcessError", "IndexError"}

\* C17: existence follows the remote state: while the directory made by
\* copyIn's reset is on the machine's host (no destroy has removed it)
\* existsVM(m) is true, and once it is on no host existsVM(m) is false.
C17_ExistenceFollowsLifecycle ==
  \A m \in LifeVMs :
    (op[m] = "existsVM" /\ EndedAfterListing(m)) =>
      /\ lpc[m] = "returned"
      /\ OwnDir(m) \in volumes => lret[m] = Bool(TRUE)
      /\ (\A d \in volumes : d.name # vmName(m)) => lret[m] = Bool(FALSE)

\* C18: safeDestroyVM goes into destroyVM only right after an existence
\* check that was true and within DESTROY_SECS; with the machine absent it
\* returns having issued nothing; and a return without an error logged
\* follows a check that was false.
C18_SafeDestroyGuarded ==
  \A m \in LifeVMs :
    op[m] = "safeDestroyVM" =>
      /\ lpc[m] = "destroy_docker" =>
           vmName(m) \in Listed(m) /\ elapsed[m] <= DESTROY_SECS
      /\ EndedAfterListing(m) =>
           /\ lpc[m] = "returned"
           /\ ~errlog[m] => vmName(m) \notin Listed(m)
           /\ (\A d \in volumes : d.name # vmName(m)) => calls[m] = <<>>

=============================================================================
